---- MODULE Spec2Model ----
(***************************************************************************)
(* Model of js/src/main.ts: a one-shot script that reads its configuration *)
(* from the environment, derives a Whirlpool address, fetches the pool,    *)
(* computes swap direction and tick arrays, and requests a swap quote.     *)
(*                                                                         *)
(* The module-level constants (lines 14-20) are evaluated one after the    *)
(* other when the module is loaded; an exception there is an uncaught      *)
(* exception of the process.  The body of the async function (lines 22-67) *)
(* runs afterwards; an exception there rejects the promise whose only      *)
(* handler is .catch(console.error) on line 68.                            *)
(***************************************************************************)
EXTENDS Integers, Sequences, FiniteSets, TLC

\* ------------------------------------------------------------------ bounds
\* longest AMOUNT / SLIPPAGE string drawn for the environment
MaxLen == 1
\* how many times the process is started with the same environment (SpecRerun)
MaxRuns == 2

\* ------------------------------------------------------- program constants
\* main.ts:39  hardcoded tick spacing of the pool looked up
TICK_SPACING == 4
\* main.ts:63  denominator given to Percentage.fromFraction
SLIPPAGE_DENOMINATOR == 100
\* main.ts:45  amountSpecifiedIsInput
amountSpecifiedIsInput == TRUE

\* ------------------------------------------------------------ value domains
Null == [kind |-> "null"]

\* a variable of process.env: unset (undefined) or a string
Unset == [set |-> FALSE, str |-> <<>>]
Str(s) == [set |-> TRUE, str |-> s]

\* characters the AMOUNT / SLIPPAGE strings are built from:
\* a decimal digit, a letter, the minus sign and a blank
Digits == {"7"}
Chars == Digits \cup {"x", "-", " "}

RECURSIVE SeqsUpTo(_)
SeqsUpTo(n) == IF n = 0 THEN {<<>>}
               ELSE LET S == SeqsUpTo(n - 1)
                    IN  S \cup {Append(s, c) : s \in {t \in S : Len(t) = n - 1}, c \in Chars}

NumericEnvValues == {Unset} \cup {Str(s) : s \in SeqsUpTo(MaxLen)}

\* addresses: base58 strings of 32 bytes are keys, the others are malformed
Mints == {"mintSOL", "mintWIF", "mintOther"}
MalformedAddresses == {"not-base58!"}
ProgramEnvValues == {Unset} \cup {Str(s) : s \in {"whirlpoolProgram"} \cup MalformedAddresses}
ConfigEnvValues == {Unset} \cup {Str(s) : s \in {"whirlpoolsConfig"} \cup MalformedAddresses}
MintEnvValues == {Unset} \cup {Str(s) : s \in Mints \cup MalformedAddresses}
MalformedUrls == {"rpc.example"}
UrlEnvValues == {Unset} \cup {Str(s) : s \in {"https://rpc.example"} \cup MalformedUrls}

Keypairs == {"kp1", "kp2"}
TickIndexes == {-1, 90}
PoolTickSpacings == {TICK_SPACING}

AddressNames == {"WHIRLPOOL_PROGRAM_ID", "WHIRLPOOL_CONFIG", "INPUT_TOKEN", "OUTPUT_TOKEN"}
NumericNames == {"AMOUNT", "SLIPPAGE"}
EnvNames == AddressNames \cup NumericNames \cup {"HTTP_URL"}

\* ---------------------------------------------------------- library values
Ok(v) == [ok |-> TRUE, val |-> v]
Throw(e) == [ok |-> FALSE, val |-> e]

\* new PublicKey(value): undefined has no _bn to read, a string must be
\* base58 and decode to 32 bytes
NewPublicKey(v) ==
    IF ~v.set THEN Throw("TypeError: Cannot read properties of undefined")
    ELSE IF v.str \in MalformedAddresses THEN Throw("Error: Invalid public key input")
    ELSE Ok(v.str)

\* value of a run of decimal digits (bn.js parseBase, base 10)
DigitValue(c) == IF c = "7" THEN 7 ELSE 0

RECURSIVE ParseBase(_, _)
ParseBase(s, acc) ==
    IF s = <<>> THEN Ok(acc)
    ELSE IF Head(s) \notin Digits THEN Throw("Error: Invalid character")
    ELSE ParseBase(Tail(s), acc * 10 + DigitValue(Head(s)))

RECURSIVE StripBlanks(_)
StripBlanks(s) ==
    IF s = <<>> THEN <<>>
    ELSE IF Head(s) = " " THEN StripBlanks(Tail(s))
    ELSE <<Head(s)>> \o StripBlanks(Tail(s))

\* a BN: sign, and the magnitude, or no words at all when nothing was parsed
BNum(neg, mag) == [negative |-> neg, words |-> TRUE, magnitude |-> mag]
BNoWords(neg) == [negative |-> neg, words |-> FALSE, magnitude |-> 0]

\* new BN(number) in base 10: `number || 0` turns undefined and "" into the
\* number 0; a string loses its blanks, an initial "-" sets the sign, and
\* what is left, if anything, is parsed digit by digit
NewBN(v) ==
    IF ~v.set \/ v.str = <<>> THEN Ok(BNum(0, 0))
    ELSE LET number == StripBlanks(v.str)
             neg == IF number # <<>> /\ Head(number) = "-" THEN 1 ELSE 0
             rest == IF neg = 1 THEN Tail(number) ELSE number
         IN  IF rest = <<>> THEN Ok(BNoWords(neg))
             ELSE LET r == ParseBase(rest, 0)
                  IN  IF r.ok THEN Ok(BNum(neg, r.val)) ELSE r

\* new Connection(endpoint): the endpoint must start with http: or https:
NewConnection(url) ==
    IF ~url.set \/ url.str \in MalformedUrls
    THEN Throw("TypeError: Endpoint URL must start with http: or https:")
    ELSE Ok([rpcEndpoint |-> url.str])

\* PDAUtil.getWhirlpool: the address is the program id and the seeds
GetWhirlpool(programId, whirlpoolsConfigKey, tokenMintAKey, tokenMintBKey, tickSpacing) ==
    [program |-> programId,
     seeds |-> <<"whirlpool", whirlpoolsConfigKey, tokenMintAKey, tokenMintBKey, tickSpacing>>]

\* PoolUtil.getTokenType, as SwapUtils.getSwapDirection uses it
GetTokenType(pool, mint) ==
    IF pool.tokenMintA = mint THEN "TokenA"
    ELSE IF pool.tokenMintB = mint THEN "TokenB"
    ELSE "undefined"

\* SwapUtils.getSwapDirection(pool, swapTokenMint, swapTokenIsInput)
GetSwapDirection(pool, swapTokenMint, swapTokenIsInput) ==
    LET tokenType == GetTokenType(pool, swapTokenMint)
    IN  IF tokenType = "undefined" THEN "undefined"
        ELSE IF (tokenType = "TokenA") = swapTokenIsInput THEN "AtoB"
        ELSE "BtoA"

\* TickUtil.getStartTickIndex: tick arrays hold 88 ticks
GetStartTickIndex(tickIndex, tickSpacing, offset) ==
    ((tickIndex \div (tickSpacing * 88)) + offset) * tickSpacing * 88

\* SwapUtils.getTickArrayPublicKeys: the three tick arrays in the direction
\* of the swap, starting at the one of the current tick
GetTickArrayPublicKeys(tickCurrentIndex, tickSpacing, direction, programId, whirlpoolAddress) ==
    LET shift == IF direction THEN 0 ELSE tickSpacing
        step == IF direction THEN -1 ELSE 1
    IN  [i \in 1..3 |->
            [program |-> programId,
             seeds |-> <<"tick_array", whirlpoolAddress,
                         GetStartTickIndex(tickCurrentIndex + shift, tickSpacing, (i - 1) * step)>>]]

\* the pool accounts an RPC endpoint may serve: a pair of two different mints
PoolStates ==
    {d \in [tokenMintA : Mints, tokenMintB : Mints,
            tickCurrentIndex : TickIndexes, tickSpacing : PoolTickSpacings] :
        d.tokenMintA # d.tokenMintB}

\* ------------------------------------------------------------------- state
VARIABLES
    env,                   \* process.env after dotenv's config()
    pc,                    \* position in the script
    WHIRLPOOL_PROGRAM_ID, WHIRLPOOL_CONFIG, INPUT_TOKEN, OUTPUT_TOKEN,
    HTTP_URL, AMOUNT, SLIPPAGE,
    keypair, connection, ctx, whirlpoolPda, whirlpool, aToB, tickArrays,
    quoteArgs,             \* the arguments swapQuoteByInputToken was called with
    inputTokenQuote,
    inFlight,              \* network operations awaited and not yet answered
    network,               \* every network operation issued, in order
    steps,                 \* the steps of the run performed, in order
    stdout, stderr,        \* what was printed
    error,                 \* the exception thrown, and where
    handledBy,             \* who handled it: the catch of line 68 or nobody
    exitCode,
    runs, lastRun          \* SpecRerun: runs started, what the previous run held

config == <<WHIRLPOOL_PROGRAM_ID, WHIRLPOOL_CONFIG, INPUT_TOKEN, OUTPUT_TOKEN,
            HTTP_URL, AMOUNT, SLIPPAGE>>
session == <<keypair, connection, ctx>>
pool == <<whirlpoolPda, whirlpool, aToB, tickArrays>>
quote == <<quoteArgs, inputTokenQuote>>
net == <<inFlight, network>>
output == <<stdout, stderr>>
failure == <<error, handledBy, exitCode>>
history == <<runs, lastRun>>

vars == <<env, pc, config, session, pool, quote, net, steps, output, failure, history>>

Started ==
    /\ pc = "L14"
    /\ WHIRLPOOL_PROGRAM_ID = Null
    /\ WHIRLPOOL_CONFIG = Null
    /\ INPUT_TOKEN = Null
    /\ OUTPUT_TOKEN = Null
    /\ HTTP_URL = Null
    /\ AMOUNT = Null
    /\ SLIPPAGE = Null
    /\ keypair = Null
    /\ connection = Null
    /\ ctx = Null
    /\ whirlpoolPda = Null
    /\ whirlpool = Null
    /\ aToB = Null
    /\ tickArrays = Null
    /\ quoteArgs = Null
    /\ inputTokenQuote = Null
    /\ inFlight = {}
    /\ network = <<>>
    /\ steps = <<>>
    /\ stdout = <<>>
    /\ stderr = <<>>
    /\ error = Null
    /\ handledBy = "none"
    /\ exitCode = Null

Init ==
    /\ env \in [WHIRLPOOL_PROGRAM_ID : ProgramEnvValues,
                WHIRLPOOL_CONFIG : ConfigEnvValues,
                INPUT_TOKEN : MintEnvValues,
                OUTPUT_TOKEN : MintEnvValues,
                HTTP_URL : UrlEnvValues,
                AMOUNT : NumericEnvValues,
                SLIPPAGE : NumericEnvValues]
    /\ Started
    /\ runs = 1
    /\ lastRun = Null

\* ------------------------------------------------- how an exception leaves
\* an exception while the module is loaded (lines 14-20): nothing catches it,
\* the runtime prints it and the process ends with exit code 1
Uncaught(e) ==
    /\ error' = [at |-> pc, thrown |-> e]
    /\ handledBy' = "runtime"
    /\ stderr' = Append(stderr, [uncaught |-> e])
    /\ exitCode' = 1
    /\ pc' = "exited"

\* an exception in the async function (lines 23-67): its promise is rejected
\* and the handler of line 68 is run
Reject(e) ==
    /\ error' = [at |-> pc, thrown |-> e]
    /\ pc' = "L68"
    /\ UNCHANGED <<handledBy, exitCode>>

\* ------------------------------------------- lines 14-20, module constants
LoadProgramId ==
    /\ pc = "L14"
    /\ LET k == NewPublicKey(env.WHIRLPOOL_PROGRAM_ID)
       IN  IF k.ok
           THEN /\ WHIRLPOOL_PROGRAM_ID' = k.val
                /\ pc' = "L15"
                /\ UNCHANGED <<output, failure>>
           ELSE /\ Uncaught(k.val)
                /\ UNCHANGED <<WHIRLPOOL_PROGRAM_ID, stdout>>
    /\ UNCHANGED <<env, WHIRLPOOL_CONFIG, INPUT_TOKEN, OUTPUT_TOKEN, HTTP_URL, AMOUNT,
                   SLIPPAGE, session, pool, quote, net, steps, history>>

LoadConfig ==
    /\ pc = "L15"
    /\ LET k == NewPublicKey(env.WHIRLPOOL_CONFIG)
       IN  IF k.ok
           THEN /\ WHIRLPOOL_CONFIG' = k.val
                /\ pc' = "L16"
                /\ UNCHANGED <<output, failure>>
           ELSE /\ Uncaught(k.val)
                /\ UNCHANGED <<WHIRLPOOL_CONFIG, stdout>>
    /\ UNCHANGED <<env, WHIRLPOOL_PROGRAM_ID, INPUT_TOKEN, OUTPUT_TOKEN, HTTP_URL, AMOUNT,
                   SLIPPAGE, session, pool, quote, net, steps, history>>

LoadInputToken ==
    /\ pc = "L16"
    /\ LET k == NewPublicKey(env.INPUT_TOKEN)
       IN  IF k.ok
           THEN /\ INPUT_TOKEN' = k.val
                /\ pc' = "L17"
                /\ UNCHANGED <<output, failure>>
           ELSE /\ Uncaught(k.val)
                /\ UNCHANGED <<INPUT_TOKEN, stdout>>
    /\ UNCHANGED <<env, WHIRLPOOL_PROGRAM_ID, WHIRLPOOL_CONFIG, OUTPUT_TOKEN, HTTP_URL, AMOUNT,
                   SLIPPAGE, session, pool, quote, net, steps, history>>

\* mutant: line 17 keeps the text of the variable instead of parsing it
MutLoadOutputToken ==
    /\ pc = "L17"
    /\ OUTPUT_TOKEN' = env.OUTPUT_TOKEN.str
    /\ pc' = "L18"
    /\ UNCHANGED <<env, WHIRLPOOL_PROGRAM_ID, WHIRLPOOL_CONFIG, INPUT_TOKEN, HTTP_URL, AMOUNT,
                   SLIPPAGE, session, pool, quote, net, steps, output, failure, history>>

LoadOutputToken ==
    /\ pc = "L17"
    /\ LET k == NewPublicKey(env.OUTPUT_TOKEN)
       IN  IF k.ok
           THEN /\ OUTPUT_TOKEN' = k.val
                /\ pc' = "L18"
                /\ UNCHANGED <<output, failure>>
           ELSE /\ Uncaught(k.val)
                /\ UNCHANGED <<OUTPUT_TOKEN, stdout>>
    /\ UNCHANGED <<env, WHIRLPOOL_PROGRAM_ID, WHIRLPOOL_CONFIG, INPUT_TOKEN, HTTP_URL, AMOUNT,
                   SLIPPAGE, session, pool, quote, net, steps, history>>

\* line 18 copies the variable as it is, undefined included
LoadHttpUrl ==
    /\ pc = "L18"
    /\ HTTP_URL' = env.HTTP_URL
    /\ pc' = "L19"
    /\ UNCHANGED <<env, WHIRLPOOL_PROGRAM_ID, WHIRLPOOL_CONFIG, INPUT_TOKEN, OUTPUT_TOKEN, AMOUNT,
                   SLIPPAGE, session, pool, quote, net, steps, output, failure, history>>

LoadAmount ==
    /\ pc = "L19"
    /\ LET n == NewBN(env.AMOUNT)
       IN  IF n.ok
           THEN /\ AMOUNT' = n.val
                /\ pc' = "L20"
                /\ UNCHANGED <<output, failure>>
           ELSE /\ Uncaught(n.val)
                /\ UNCHANGED <<AMOUNT, stdout>>
    /\ UNCHANGED <<env, WHIRLPOOL_PROGRAM_ID, WHIRLPOOL_CONFIG, INPUT_TOKEN, OUTPUT_TOKEN, HTTP_URL,
                   SLIPPAGE, session, pool, quote, net, steps, history>>

LoadSlippage ==
    /\ pc = "L20"
    /\ LET n == NewBN(env.SLIPPAGE)
       IN  IF n.ok
           THEN /\ SLIPPAGE' = n.val
                /\ pc' = "L23"
                /\ UNCHANGED <<output, failure>>
           ELSE /\ Uncaught(n.val)
                /\ UNCHANGED <<SLIPPAGE, stdout>>
    /\ UNCHANGED <<env, WHIRLPOOL_PROGRAM_ID, WHIRLPOOL_CONFIG, INPUT_TOKEN, OUTPUT_TOKEN, HTTP_URL,
                   AMOUNT, session, pool, quote, net, steps, history>>

\* ---------------------------------------- lines 22-67, the async function
\* line 23: a fresh random keypair
GenerateKeypair ==
    /\ pc = "L23"
    /\ \E k \in Keypairs : keypair' = k
    /\ pc' = "L24"
    /\ UNCHANGED <<env, config, connection, ctx, pool, quote, net, steps, output, failure, history>>

\* lines 24-25: the connection (no request is sent yet) and the provider
OpenConnection ==
    /\ pc = "L24"
    /\ LET c == NewConnection(HTTP_URL)
       IN  IF c.ok
           THEN /\ connection' = c.val
                /\ pc' = "L27"
                /\ UNCHANGED failure
           ELSE /\ Reject(c.val)
                /\ UNCHANGED connection
    /\ UNCHANGED <<env, config, keypair, ctx, pool, quote, net, steps, output, history>>

\* line 27
PrintProgramId ==
    /\ pc = "L27"
    /\ stdout' = Append(stdout, [label |-> "whirlpool program: ",
                                 value |-> env.WHIRLPOOL_PROGRAM_ID.str])
    /\ steps' = Append(steps, "programIdPrinted")
    /\ pc' = "L29"
    /\ UNCHANGED <<env, config, session, pool, quote, net, stderr, failure, history>>

\* lines 29-32
BuildContext ==
    /\ pc = "L29"
    /\ ctx' = [wallet |-> keypair, connection |-> connection,
               programId |-> WHIRLPOOL_PROGRAM_ID]
    /\ pc' = "L34"
    /\ UNCHANGED <<env, config, keypair, connection, pool, quote, net, steps, output,
                   failure, history>>

\* mutant: the wallet's key is among the seeds of the pool address
MutDerivePoolAddress ==
    /\ pc = "L34"
    /\ whirlpoolPda' = GetWhirlpool(WHIRLPOOL_PROGRAM_ID, ctx.wallet,
                                    INPUT_TOKEN, OUTPUT_TOKEN, TICK_SPACING)
    /\ steps' = Append(steps, "poolAddressDerived")
    /\ pc' = "L42"
    /\ UNCHANGED <<env, config, session, whirlpool, aToB, tickArrays, quote, net, output,
                   failure, history>>

\* lines 34-40
DerivePoolAddress ==
    /\ pc = "L34"
    /\ whirlpoolPda' = GetWhirlpool(WHIRLPOOL_PROGRAM_ID, WHIRLPOOL_CONFIG,
                                    INPUT_TOKEN, OUTPUT_TOKEN, TICK_SPACING)
    /\ steps' = Append(steps, "poolAddressDerived")
    /\ pc' = "L42"
    /\ UNCHANGED <<env, config, session, whirlpool, aToB, tickArrays, quote, net, output,
                   failure, history>>

\* lines 41-42: getPool is called and awaited
GetPoolRequest ==
    /\ pc = "L42"
    /\ inFlight' = inFlight \cup {"getPool"}
    /\ network' = Append(network, [op |-> "getPool", address |-> whirlpoolPda,
                                   endpoint |-> ctx.connection.rpcEndpoint])
    /\ pc' = "L42await"
    /\ UNCHANGED <<env, config, session, pool, quote, steps, output, failure, history>>

\* line 42: the answer: the request fails, no account is at the address,
\* or the pool account the endpoint serves
GetPoolResponse ==
    /\ pc = "L42await"
    /\ "getPool" \in inFlight
    /\ inFlight' = inFlight \ {"getPool"}
    /\ \/ /\ \E e \in {"Error: failed to get info about account",
                       "Error: Unable to fetch Whirlpool at address"} : Reject(e)
          /\ UNCHANGED <<whirlpool, steps>>
       \/ /\ \E d \in PoolStates : whirlpool' = [address |-> whirlpoolPda, data |-> d]
          /\ steps' = Append(steps, "poolFetched")
          /\ pc' = "L43"
          /\ UNCHANGED failure
    /\ UNCHANGED <<env, config, session, whirlpoolPda, aToB, tickArrays, quote, network,
                   output, history>>

\* mutant: the direction is compared with SwapDirection.BtoA
MutComputeDirection ==
    /\ pc = "L43"
    /\ aToB' = (GetSwapDirection(whirlpool.data, INPUT_TOKEN, amountSpecifiedIsInput) = "BtoA")
    /\ steps' = Append(steps, "directionComputed")
    /\ pc' = "L50"
    /\ UNCHANGED <<env, config, session, whirlpoolPda, whirlpool, tickArrays, quote, net,
                   output, failure, history>>

\* lines 43-48
ComputeDirection ==
    /\ pc = "L43"
    /\ LET whirlpoolData == whirlpool.data
           swapMintKey == INPUT_TOKEN
       IN  aToB' = (GetSwapDirection(whirlpoolData, swapMintKey, amountSpecifiedIsInput) = "AtoB")
    /\ steps' = Append(steps, "directionComputed")
    /\ pc' = "L50"
    /\ UNCHANGED <<env, config, session, whirlpoolPda, whirlpool, tickArrays, quote, net,
                   output, failure, history>>

\* lines 50-56
ComputeTickArrays ==
    /\ pc = "L50"
    /\ tickArrays' = [direction |-> aToB,
                      keys |-> GetTickArrayPublicKeys(whirlpool.data.tickCurrentIndex,
                                                      whirlpool.data.tickSpacing, aToB,
                                                      WHIRLPOOL_PROGRAM_ID, whirlpool.address)]
    /\ pc' = "L57"
    /\ UNCHANGED <<env, config, session, whirlpoolPda, whirlpool, aToB, quote, net, steps,
                   output, failure, history>>

\* mutant: the tick arrays are not printed before the quote is requested
MutPrintTickArrays ==
    /\ pc = "L57"
    /\ steps' = Append(steps, "tickArraysPrinted")
    /\ pc' = "L59"
    /\ UNCHANGED <<env, config, session, pool, quote, net, output, failure, history>>

\* line 57
PrintTickArrays ==
    /\ pc = "L57"
    /\ stdout' = Append(stdout, [label |-> "tickArrays: {}", value |-> tickArrays.keys])
    /\ steps' = Append(steps, "tickArraysPrinted")
    /\ pc' = "L59"
    /\ UNCHANGED <<env, config, session, pool, quote, net, stderr, failure, history>>

\* lines 59-66: swapQuoteByInputToken is called and awaited
QuoteRequest ==
    /\ pc = "L59"
    /\ quoteArgs' = [whirlpool |-> whirlpool.address,
                     inputTokenMint |-> whirlpool.data.tokenMintA,
                     tokenAmount |-> AMOUNT,
                     slippageTolerance |-> [numerator |-> SLIPPAGE,
                                            denominator |-> SLIPPAGE_DENOMINATOR],
                     programId |-> ctx.programId]
    /\ inFlight' = inFlight \cup {"swapQuote"}
    /\ network' = Append(network, [op |-> "swapQuote", address |-> whirlpool.address,
                                   endpoint |-> ctx.connection.rpcEndpoint])
    /\ steps' = Append(steps, "quoteRequested")
    /\ pc' = "L59await"
    /\ UNCHANGED <<env, config, session, pool, inputTokenQuote, output, failure, history>>

\* line 59: the answer: the quote, priced for the mint it was asked for, or
\* an error of the tick-array fetch or of the computation
QuoteResponse ==
    /\ pc = "L59await"
    /\ "swapQuote" \in inFlight
    /\ inFlight' = inFlight \ {"swapQuote"}
    /\ \/ /\ \E e \in {"Error: failed to get tick arrays", "Error: quote computation failed"} :
                Reject(e)
          /\ UNCHANGED inputTokenQuote
       \/ /\ inputTokenQuote' =
                [aToB |-> (GetSwapDirection(whirlpool.data, quoteArgs.inputTokenMint, TRUE) = "AtoB"),
                 amount |-> quoteArgs.tokenAmount,
                 amountSpecifiedIsInput |-> TRUE]
          /\ pc' = "L67"
          /\ UNCHANGED failure
    /\ UNCHANGED <<env, config, session, pool, quoteArgs, network, steps, output, history>>

\* line 67
PrintQuote ==
    /\ pc = "L67"
    /\ stdout' = Append(stdout, [label |-> "Quote: {}", value |-> inputTokenQuote])
    /\ steps' = Append(steps, "quotePrinted")
    /\ pc' = "resolved"
    /\ UNCHANGED <<env, config, session, pool, quote, net, stderr, failure, history>>

\* mutant: the handler logs the error and tries the pool fetch again
MutCatchError ==
    /\ pc = "L68"
    /\ stderr' = Append(stderr, [logged |-> error.thrown])
    /\ handledBy' = "catch"
    /\ pc' = IF whirlpoolPda = Null \/ Len(network) >= 3 THEN "settled" ELSE "L42"
    /\ UNCHANGED <<env, config, session, pool, quote, net, steps, stdout, error, exitCode,
                   history>>

\* line 68: .catch(console.error) prints the rejection and returns normally
CatchError ==
    /\ pc = "L68"
    /\ stderr' = Append(stderr, [logged |-> error.thrown])
    /\ handledBy' = "catch"
    /\ pc' = "settled"
    /\ UNCHANGED <<env, config, session, pool, quote, net, steps, stdout, error, exitCode,
                   history>>

\* the promise chain has settled and nothing is pending: the process ends
\* normally, exit code 0 (no statement of the script sets another)
Exit ==
    /\ pc \in {"resolved", "settled"}
    /\ exitCode' = 0
    /\ pc' = "exited"
    /\ UNCHANGED <<env, config, session, pool, quote, net, steps, output, error, handledBy,
                   history>>

\* the same environment, the process started again
Rerun ==
    /\ pc = "exited"
    /\ runs < MaxRuns
    /\ runs' = runs + 1
    /\ lastRun' = [whirlpoolPda |-> whirlpoolPda, keypair |-> keypair, whirlpool |-> whirlpool]
    /\ pc' = "L14"
    /\ WHIRLPOOL_PROGRAM_ID' = Null
    /\ WHIRLPOOL_CONFIG' = Null
    /\ INPUT_TOKEN' = Null
    /\ OUTPUT_TOKEN' = Null
    /\ HTTP_URL' = Null
    /\ AMOUNT' = Null
    /\ SLIPPAGE' = Null
    /\ keypair' = Null
    /\ connection' = Null
    /\ ctx' = Null
    /\ whirlpoolPda' = Null
    /\ whirlpool' = Null
    /\ aToB' = Null
    /\ tickArrays' = Null
    /\ quoteArgs' = Null
    /\ inputTokenQuote' = Null
    /\ inFlight' = {}
    /\ network' = <<>>
    /\ steps' = <<>>
    /\ stdout' = <<>>
    /\ stderr' = <<>>
    /\ error' = Null
    /\ handledBy' = "none"
    /\ exitCode' = Null
    /\ UNCHANGED env

Next ==
    \/ LoadProgramId
    \/ LoadConfig
    \/ LoadInputToken
    \/ LoadOutputToken
    \/ LoadHttpUrl
    \/ LoadAmount
    \/ LoadSlippage
    \/ GenerateKeypair
    \/ OpenConnection
    \/ PrintProgramId
    \/ BuildContext
    \/ DerivePoolAddress
    \/ GetPoolRequest
    \/ GetPoolResponse
    \/ ComputeDirection
    \/ ComputeTickArrays
    \/ PrintTickArrays
    \/ QuoteRequest
    \/ QuoteResponse
    \/ PrintQuote
    \/ CatchError
    \/ Exit

Spec == Init /\ [][Next]_vars

\* the text is, blanks aside, an optional minus sign and one or more digits
IsNumeric(s) ==
    LET t == StripBlanks(s)
        d == IF t # <<>> /\ Head(t) = "-" THEN Tail(t) ELSE t
    IN  d # <<>> /\ \A i \in 1..Len(d) : d[i] \in Digits

NextRerun ==
    \/ Next
    \/ Rerun

\* the environment of a run the claim about reruns speaks of: every value valid
ValidEnv ==
    /\ \A n \in AddressNames : env[n].set /\ env[n].str \notin MalformedAddresses
    /\ env.HTTP_URL.set /\ env.HTTP_URL.str \notin MalformedUrls
    /\ \A n \in NumericNames : env[n].set /\ IsNumeric(env[n].str)

InitRerun == Init /\ ValidEnv

SpecRerun == InitRerun /\ [][NextRerun]_vars

\* ------------------------------------------------------------ observations
Failed == error # Null
Did(step) == \E i \in DOMAIN steps : steps[i] = step
Printed(label) == \E i \in DOMAIN stdout : stdout[i].label = label
QuotePrinted == Printed("Quote: {}")
TickArraysPrinted == Printed("tickArrays: {}")
PrintedValue(label) == stdout[CHOOSE i \in DOMAIN stdout : stdout[i].label = label].value
StartupPositions == {"L14", "L15", "L16", "L17", "L18", "L19", "L20"}
\* the run ended while the module constants were evaluated
FailedAtStartup == pc = "exited" /\ Failed /\ error.at \in StartupPositions
\* the run is still evaluating them, or ended there
NeverLeftStartup == pc \in StartupPositions \/ FailedAtStartup

IsPrefix(s, t) == Len(s) <= Len(t) /\ \A i \in 1..Len(s) : s[i] = t[i]

\* ------------------------------------------------------------------ claims

\* C1: a run in which a step failed ends with a non-zero exit code, with the
\* error printed and no quote printed; exit code 0 only after the quote was
\* printed.
C1_FailureExitsNonZero ==
    pc = "exited" =>
        /\ (Failed => exitCode # 0 /\ stderr # <<>> /\ ~QuotePrinted)
        /\ (exitCode = 0 => QuotePrinted)

\* C2: the input mint given to the quote computation is the configured
\* INPUT_TOKEN, whatever pool state the fetch returned.
C2_QuoteInputMintIsInputToken ==
    Did("quoteRequested") => quoteArgs.inputTokenMint = INPUT_TOKEN

\* C3: with any of the seven environment values absent the run fails at
\* startup: no default stands in for the value and no later step runs.
C3_AbsentValueFailsAtStartup ==
    (\E n \in EnvNames : ~env[n].set) =>
        /\ NeverLeftStartup
        /\ (~env.AMOUNT.set => AMOUNT = Null)
        /\ (~env.SLIPPAGE.set => SLIPPAGE = Null)

\* C4: a non-numeric AMOUNT or SLIPPAGE makes the run fail at startup, before
\* any network call.
C4_NonNumericFailsBeforeNetwork ==
    (\E n \in NumericNames : env[n].set /\ ~IsNumeric(env[n].str)) =>
        network = <<>>

\* C5: a syntactically invalid address in any of the four address values
\* makes the run fail at startup: all four are parsed before the connection
\* is constructed and before the pool fetch is issued.
C5_InvalidAddressFailsBeforeNetwork ==
    /\ (\E n \in AddressNames : env[n].set /\ env[n].str \in MalformedAddresses) =>
            /\ pc \in {"L14", "L15", "L16", "L17"} \/ FailedAtStartup
            /\ connection = Null
            /\ network = <<>>
            /\ (pc = "exited" => exitCode # 0)
    /\ (connection # Null \/ network # <<>>) =>
            \A n \in AddressNames : env[n].set /\ env[n].str \notin MalformedAddresses

C5_Witness ==
    /\ pc = "exited"
    /\ env.OUTPUT_TOKEN.set /\ env.OUTPUT_TOKEN.str \in MalformedAddresses
    /\ error.at = "L17"
    /\ exitCode = 1

\* C6: aToB is true when INPUT_TOKEN is the pool's token-A mint and false when
\* it is the token-B mint, and the tick arrays are those of that direction.
C6_DirectionFollowsInputMint ==
    /\ Did("directionComputed") =>
            /\ (INPUT_TOKEN = whirlpool.data.tokenMintA => aToB = TRUE)
            /\ (INPUT_TOKEN = whirlpool.data.tokenMintB => aToB = FALSE)
    /\ (Did("tickArraysPrinted")
            /\ INPUT_TOKEN \in {whirlpool.data.tokenMintA, whirlpool.data.tokenMintB}) =>
            PrintedValue("tickArrays: {}") =
                GetTickArrayPublicKeys(whirlpool.data.tickCurrentIndex,
                                       whirlpool.data.tickSpacing,
                                       INPUT_TOKEN = whirlpool.data.tokenMintA,
                                       WHIRLPOOL_PROGRAM_ID, whirlpoolPda)

C6_Witness ==
    /\ Did("tickArraysPrinted")
    /\ INPUT_TOKEN = whirlpool.data.tokenMintB
    /\ aToB = FALSE
    /\ whirlpool.data.tickCurrentIndex < 0

\* C7: every failure takes the same path: it reaches the catch of line 68,
\* which logs the error object, and the process exits non-zero.
C7_EveryFailureThroughCatch ==
    (pc = "exited" /\ Failed) =>
        /\ handledBy = "catch"
        /\ stderr = <<[logged |-> error.thrown]>>
        /\ exitCode # 0

\* C8: two runs with the same environment derive the same pool address: it is
\* a function of program id, config id, INPUT_TOKEN, OUTPUT_TOKEN and the
\* tick spacing 4 only, not of the keypair, the connection or the network.
C8_PoolAddressReproducible ==
    Did("poolAddressDerived") =>
        /\ whirlpoolPda.program = env.WHIRLPOOL_PROGRAM_ID.str
        /\ whirlpoolPda.seeds = <<"whirlpool", env.WHIRLPOOL_CONFIG.str, env.INPUT_TOKEN.str,
                                  env.OUTPUT_TOKEN.str, 4>>
        /\ (runs > 1 /\ lastRun.whirlpoolPda # Null => whirlpoolPda = lastRun.whirlpoolPda)

C8_Witness ==
    /\ runs > 1
    /\ Did("poolFetched")
    /\ lastRun.whirlpoolPda # Null
    /\ lastRun.whirlpool # Null
    /\ lastRun.keypair # keypair
    /\ lastRun.whirlpool.data # whirlpool.data

\* C9: the steps happen at most once each and in one fixed order; at most one
\* network operation is in flight; the quote request is issued only after the
\* pool fetch has completed successfully.
StepOrder ==
    <<"programIdPrinted", "poolAddressDerived", "poolFetched", "directionComputed",
      "tickArraysPrinted", "quoteRequested", "quotePrinted">>

C9_OneLinearChain ==
    /\ IsPrefix(steps, StepOrder)
    /\ IsPrefix([i \in DOMAIN network |-> network[i].op], <<"getPool", "swapQuote">>)
    /\ Cardinality(inFlight) <= 1
    /\ ("swapQuote" \in inFlight \/ Did("quoteRequested")) =>
            /\ Did("poolFetched")
            /\ "getPool" \notin inFlight
            /\ whirlpool # Null

C9_Witness ==
    /\ pc = "exited"
    /\ steps = StepOrder
    /\ Len(network) = 2

\* C10 as claimed: a run that ends in failure has printed neither the
\* tick-array list nor the quote.
C10_NoOutputOnFailure ==
    (pc = "exited" /\ Failed) => ~TickArraysPrinted /\ ~QuotePrinted

\* C10 as amended: a run that ends in failure has not printed the quote; it
\* has printed the tick-array list exactly when the failure is that of the
\* quote computation.
C10_NoQuoteOnFailure ==
    (pc = "exited" /\ Failed) =>
        /\ ~QuotePrinted
        /\ (TickArraysPrinted <=> error.at = "L59await")

C10_Witness ==
    /\ pc = "exited"
    /\ Failed
    /\ error.at = "L59await"
    /\ TickArraysPrinted
    /\ ~QuotePrinted
====
